---- MODULE Spec2Model ----
(***************************************************************************)
(* Schema inference from a batch of namedtuples (Solutions.ipynb):         *)
(* unify_datatype picks one column type for a column's values and          *)
(* infer_schema_nt validates a batch and assembles a CREATE TABLE text.    *)
(*                                                                         *)
(* Text is a sequence of one-character strings, so that find, rstrip and   *)
(* join act on characters.  A Python int is a sign and a big-endian bit    *)
(* sequence without leading zeros (arbitrary precision); a Decimal is a    *)
(* sign, a coefficient (decimal digits) and an exponent.                   *)
(***************************************************************************)
EXTENDS Integers, Sequences, FiniteSets

VARIABLES src, orig, pc, dataset, n, types, out, hist, ucalls, vals, result

vars == <<src, orig, pc, dataset, n, types, out, hist, ucalls, vals, result>>

(***************************************************************************)
(* Bounds of the model.                                                    *)
(***************************************************************************)
MaxBits == 68
MaxColLen == 2
MaxBatch == 3
MaxCalls == 2

(***************************************************************************)
(* Values.  Every value has the same shape:                                *)
(*   t     the Python type                                                 *)
(*   sign  0 or 1 (int, Decimal)                                           *)
(*   digs  int: bits, most significant first, <<>> for 0;                  *)
(*         Decimal: the coefficient's digits; float, Fraction: an id       *)
(*   exp   Decimal: the exponent                                           *)
(*   s     str: the characters                                             *)
(***************************************************************************)
Val(t, sign, digs, exp, s) ==
    [t |-> t, sign |-> sign, digs |-> digs, exp |-> exp, s |-> s]

IntV(sign, bits) == Val("int", sign, bits, 0, <<>>)
BoolV(b) == Val("bool", 0, IF b THEN <<1>> ELSE <<>>, 0, <<>>)
FloatV(k) == Val("float", 0, <<k>>, 0, <<>>)
DecV(sign, digs, exp) == Val("Decimal", sign, digs, exp, <<>>)
StrV(s) == Val("str", 0, <<>>, 0, s)
FracV(num, den) == Val("Fraction", 0, <<num, den>>, 0, <<>>)
NoneV == Val("NoneType", 0, <<>>, 0, <<>>)

\* isinstance(v, float), isinstance(v, int) (bool is a subclass of int), ...
IsFloat(v) == v.t = "float"
IsInt(v) == v.t \in {"int", "bool"}
IsDecimal(v) == v.t = "Decimal"
IsStr(v) == v.t = "str"
IsFraction(v) == v.t = "Fraction"

(***************************************************************************)
(* Text helpers.                                                           *)
(***************************************************************************)
Digits == <<"0", "1", "2", "3", "4", "5", "6", "7", "8", "9">>

DigitChar(d) == Digits[d + 1]

RECURSIVE NatStr(_)
\* The decimal text of a natural number, as an f-string or %d prints it.
NatStr(k) == IF k < 10 THEN <<DigitChar(k)>>
             ELSE NatStr(k \div 10) \o <<DigitChar(k % 10)>>

Reverse(s) == [i \in 1..Len(s) |-> s[Len(s) + 1 - i]]

\* str.find(c): the 0-based index of the first c, or -1.
Find(s, c) ==
    IF \E i \in 1..Len(s) : s[i] = c
    THEN (CHOOSE i \in 1..Len(s) : s[i] = c /\ \A j \in 1..(i - 1) : s[j] # c) - 1
    ELSE -1

Rep(c, k) == [i \in 1..k |-> c]

Max2(a, b) == IF a >= b THEN a ELSE b

(***************************************************************************)
(* Integers of any size.                                                   *)
(***************************************************************************)
\* int.bit_length() of a magnitude.
BitLength(bits) == Len(bits)

\* a < b for magnitudes (bit sequences without leading zeros).
MagLess(a, b) ==
    \/ Len(a) < Len(b)
    \/ /\ Len(a) = Len(b)
       /\ \E i \in 1..Len(a) : a[i] < b[i] /\ \A j \in 1..(i - 1) : a[j] = b[j]

\* abs(v) of an int or a bool.
Abs(v) == v.digs

RECURSIVE MaxAbsFrom(_, _, _)
MaxAbsFrom(vs, i, best) ==
    IF i > Len(vs) THEN best
    ELSE MaxAbsFrom(vs, i + 1, IF MagLess(best, Abs(vs[i])) THEN Abs(vs[i]) ELSE best)

\* max(abs(v) for v in vals), vals not empty.
MaxAbs(vs) == MaxAbsFrom(vs, 2, Abs(vs[1]))

(***************************************************************************)
(* Numbers that do not fit a machine word, as limbs in base 10000, least   *)
(* significant limb first.                                                 *)
(***************************************************************************)
RECURSIVE MulAddFrom(_, _, _, _, _)
MulAddFrom(d, c, i, carry, acc) ==
    IF i > Len(d)
    THEN (IF carry = 0 THEN acc
          ELSE MulAddFrom(d, c, i + 1, carry \div 10000, Append(acc, carry % 10000)))
    ELSE LET x == d[i] * c + carry
         IN MulAddFrom(d, c, i + 1, x \div 10000, Append(acc, x % 10000))

\* d * c + a, for 0 <= c, a <= 65536.
MulAdd(d, c, a) == MulAddFrom(d, c, 1, a, <<>>)

\* The number of decimal digits of a positive number.
NumDigits(d) == 4 * (Len(d) - 1) + Len(NatStr(d[Len(d)]))

RECURSIVE Pow2(_)
\* 2 ** k, sixteen doublings at a time.
Pow2(k) ==
    IF k = 0 THEN <<1>>
    ELSE LET step == IF k % 16 = 0 THEN 16 ELSE k % 16
         IN MulAdd(Pow2(k - step), 2 ^ step, 0)

\* The size as if it were ceil(log10(2 ** size)) + 1.
CeilLog10Pow2PlusOne(size) == NumDigits(Pow2(size)) + 1

\* int(1 + log10(2 ** size)): log10(2 ** size) is never whole for size >= 1, so
\* the truncation gives the number of decimal digits of 2 ** size.
Int1PlusLog10Pow2(size) == NumDigits(Pow2(size))

(***************************************************************************)
(* str(Decimal): the coefficient with the point placed by the exponent,    *)
(* or scientific notation when the exponent is positive or the value has   *)
(* more than six leading zeros.                                            *)
(***************************************************************************)
SignedStr(k) == IF k < 0 THEN <<"-">> \o NatStr(-k) ELSE <<"+">> \o NatStr(k)

DigitChars(digs) == [i \in 1..Len(digs) |-> DigitChar(digs[i])]

DecimalStr(v) ==
    LET int == DigitChars(v.digs)
        leftdigits == v.exp + Len(int)
        dotplace == IF v.exp <= 0 /\ leftdigits > -6 THEN leftdigits ELSE 1
        intpart == IF dotplace <= 0 THEN <<"0">>
                   ELSE IF dotplace >= Len(int)
                        THEN int \o Rep("0", dotplace - Len(int))
                        ELSE SubSeq(int, 1, dotplace)
        fracpart == IF dotplace <= 0 THEN <<".">> \o Rep("0", -dotplace) \o int
                    ELSE IF dotplace >= Len(int) THEN <<>>
                         ELSE <<".">> \o SubSeq(int, dotplace + 1, Len(int))
        exp == IF leftdigits = dotplace THEN <<>>
               ELSE <<"E">> \o SignedStr(leftdigits - dotplace)
    IN (IF v.sign = 1 THEN <<"-">> ELSE <<>>) \o intpart \o fracpart \o exp

(***************************************************************************)
(* The type labels unify_datatype returns.                                 *)
(***************************************************************************)
LblDouble == <<"D", "O", "U", "B", "L", "E", " ", "P", "R", "E", "C", "I", "S", "I", "O", "N">>
LblSmallint == <<"S", "M", "A", "L", "L", "I", "N", "T">>
LblInteger == <<"I", "N", "T", "E", "G", "E", "R">>
LblBigint == <<"B", "I", "G", "I", "N", "T">>
LblText == <<"T", "E", "X", "T">>
LblDecimalOpen == <<"D", "E", "C", "I", "M", "A", "L", "(">>

\* f"DECIMAL({p})"
LblDecimal1(p) == LblDecimalOpen \o NatStr(p) \o <<")">>

\* f"DECIMAL({p}, {s})"
LblDecimal2(p, s) == LblDecimalOpen \o NatStr(p) \o <<",", " ">> \o NatStr(s) \o <<")">>

LblCurrency == LblDecimal2(10, 2)

\* What a call does: it returns a text, or raises an exception with a message.
Return(text) == [kind |-> "return", exc |-> "", text |-> text]
Raise(exc, text) == [kind |-> "raise", exc |-> exc, text |-> text]

MsgStringIndex ==
    <<"s", "t", "r", "i", "n", "g", " ", "i", "n", "d", "e", "x", " ", "o",
      "u", "t", " ", "o", "f", " ", "r", "a", "n", "g", "e">>

MsgTupleIndex ==
    <<"t", "u", "p", "l", "e", " ", "i", "n", "d", "e", "x", " ", "o", "u",
      "t", " ", "o", "f", " ", "r", "a", "n", "g", "e">>

MsgTwoRows ==
    <<"A", "t", " ", "l", "e", "a", "s", "t", " ", "t", "w", "o", " ", "r",
      "o", "w", "s", " ", "a", "r", "e", " ", "r", "e", "q", "u", "i", "r",
      "e", "d", " ", "f", "o", "r", " ", "i", "n", "f", "e", "r", "e", "n",
      "c", "e">>

MsgNotNamedtuples ==
    <<"T", "h", "e", " ", "d", "a", "t", "a", "s", "e", "t", " ", "d", "o",
      "e", "s", " ", "n", "o", "t", " ", "a", "p", "p", "e", "a", "r", " ",
      "t", "o", " ", "b", "e", " ", "e", "x", "c", "l", "u", "s", "i", "v",
      "e", "l", "y", " ", "n", "a", "m", "e", "d", "t", "u", "p", "l", "e",
      "s">>

MsgVaryingTypes ==
    <<"T", "h", "e", " ", "d", "a", "t", "a", "s", "e", "t", " ", "h", "a",
      "s", " ", "n", "a", "m", "e", "d", "t", "u", "p", "l", "e", "s", " ",
      "o", "f", " ", "v", "a", "r", "y", "i", "n", "g", " ", "t", "y", "p",
      "e", "s">>

MsgNoUnifiedPrefix ==
    <<"C", "o", "u", "l", "d", " ", "n", "o", "t", " ", "f", "i", "n", "d",
      " ", "u", "n", "i", "f", "i", "e", "d", " ", "d", "a", "t", "a", "t",
      "y", "p", "e", " ", "f", "o", "r", " ", "c", "o", "l", "u", "m", "n",
      " ">>

(***************************************************************************)
(* unify_datatype                                                          *)
(***************************************************************************)
SmallBits == 16
IntBits == 32
BigBits == 64

\* The integer branch with the limits taken as exclusive.
IntLabelExclusive(size) ==
    IF size < SmallBits THEN LblSmallint
    ELSE IF size < IntBits THEN LblInteger
    ELSE IF size < BigBits THEN LblBigint
    ELSE LblDecimal1(Int1PlusLog10Pow2(size))

\* The integer branch: the label for the bit length of the largest magnitude.
IntLabel(size) ==
    IF size <= SmallBits THEN LblSmallint
    ELSE IF size <= IntBits THEN LblInteger
    ELSE IF size <= BigBits THEN LblBigint
    ELSE LblDecimal1(Int1PlusLog10Pow2(size))

RECURSIVE DecimalLoop(_, _, _, _)
\* The loop over the column's Decimals: <<to_right, to_left>> when it ends.
DecimalLoop(vs, i, to_right, to_left) ==
    IF i > Len(vs) THEN <<to_right, to_left>>
    ELSE LET v_str == DecimalStr(vs[i])
         IN DecimalLoop(vs, i + 1,
                        Max2(to_right, Find(Reverse(v_str), ".")),
                        Max2(to_left, Find(v_str, ".")))

\* The Decimal branch.
DecimalLabel(vs) ==
    LET r == DecimalLoop(vs, 1, 0, 1)
        to_right == r[1] + 1
        to_left == r[2]
    IN LblDecimal2(to_left + to_right, to_right)

RECURSIVE CurrencyAll(_, _)
\* all(isinstance(v, str) and v[0] == '$' for v in vals): all() stops at the
\* first false element, and v[0] of an empty str raises IndexError.
CurrencyAll(vs, i) ==
    IF i > Len(vs) THEN "true"
    ELSE IF ~IsStr(vs[i]) THEN "false"
    ELSE IF Len(vs[i].s) = 0 THEN "raise"
    ELSE IF vs[i].s[1] # "$" THEN "false"
    ELSE CurrencyAll(vs, i + 1)

unify_datatype(vs) ==
    IF \A i \in 1..Len(vs) : IsFloat(vs[i]) THEN Return(LblDouble)
    ELSE IF \A i \in 1..Len(vs) : IsInt(vs[i])
         THEN Return(IntLabel(BitLength(MaxAbs(vs))))
    ELSE IF \A i \in 1..Len(vs) : IsDecimal(vs[i]) THEN Return(DecimalLabel(vs))
    ELSE IF CurrencyAll(vs, 1) = "raise" THEN Raise("IndexError", MsgStringIndex)
    ELSE IF CurrencyAll(vs, 1) = "true" THEN Return(LblCurrency)
    ELSE IF \A i \in 1..Len(vs) : IsFraction(vs[i]) THEN Return(LblDouble)
    ELSE Return(LblText)

(***************************************************************************)
(* The columns the pure function is applied to.                            *)
(***************************************************************************)
\* 2 ** k - 1 and 2 ** (k - 1): the largest and the smallest magnitude of
\* bit length k.
AllOnes(k) == [i \in 1..k |-> 1]
PowTwo(k) == [i \in 1..k |-> IF i = 1 THEN 1 ELSE 0]

BitSizes == {0, 1, 15, 16, 17, 31, 32, 33, 63, 64} \cup (65..MaxBits)

Mags == {AllOnes(k) : k \in BitSizes} \cup {PowTwo(k) : k \in BitSizes}

IntPool == {IntV(0, m) : m \in Mags} \cup {IntV(1, m) : m \in Mags \ {<<>>}}

DecPool == {
    DecV(0, <<1, 1, 5, 5, 7, 3>>, -5),
    DecV(0, <<1, 1, 5, 5, 7, 2, 7, 3, 4, 9, 7, 9, 0, 9, 2, 1, 7, 1, 7, 9, 3, 5, 7, 2, 6>>, -24),
    DecV(0, <<1, 0>>, -1),
    DecV(0, <<1, 2, 3>>, 0),
    DecV(1, <<1, 5>>, -1),
    DecV(1, <<1, 2, 2, 5>>, -2),
    DecV(0, <<1>>, 5),
    DecV(0, <<1, 5>>, 9),
    DecV(0, <<1>>, -3),
    DecV(0, <<1>>, -7) }

StrPool == {StrV(<<>>), StrV(<<"$", "5">>), StrV(<<"$">>), StrV(<<"x">>)}

OtherPool == {FloatV(1), FloatV(2), FracV(22, 7), FracV(1, 3), BoolV(TRUE), NoneV}

ValPool == IntPool \cup DecPool \cup StrPool \cup OtherPool

Columns == UNION {[1..k -> ValPool] : k \in 1..MaxColLen}

NoResult == [kind |-> "none", exc |-> "", text |-> <<>>]

NoSource == [lazy |-> FALSE, items |-> <<>>]

\* The pure function on its own: a column is chosen and unify_datatype applied.
InitUnify ==
    /\ vals \in Columns
    /\ result = NoResult
    /\ src = NoSource /\ orig = <<>> /\ pc = "unify" /\ dataset = <<>>
    /\ n = 0 /\ types = <<>> /\ out = NoResult /\ hist = <<>> /\ ucalls = 0

Unify ==
    /\ pc = "unify"
    /\ result = NoResult
    /\ result' = unify_datatype(vals)
    /\ UNCHANGED <<src, orig, pc, dataset, n, types, out, hist, ucalls, vals>>

NextUnify == Unify

SpecUnify == InitUnify /\ [][NextUnify]_vars

(***************************************************************************)
(* infer_schema_nt.  A batch element is an object of a class; the class    *)
(* says whether it is a tuple, whether it has _fields, and its __name__.   *)
(* Two classes may carry the same __name__.                                *)
(***************************************************************************)
Class(id, name, isTuple, hasFields, fields) ==
    [id |-> id, name |-> name, isTuple |-> isTuple, hasFields |-> hasFields,
     fields |-> fields]

\* namedtuple("N1", "a b"), namedtuple("N2", "a b"), a second
\* namedtuple("N1", "x"), namedtuple("E", ""), the plain tuple, the dict, and
\* a class that has _fields and is no tuple.
ClsN1 == Class(1, <<"N", "1">>, TRUE, TRUE, <<<<"a">>, <<"b">>>>)
ClsN2 == Class(2, <<"N", "2">>, TRUE, TRUE, <<<<"a">>, <<"b">>>>)
ClsN1x == Class(3, <<"N", "1">>, TRUE, TRUE, <<<<"x">>>>)
ClsE == Class(4, <<"E">>, TRUE, TRUE, <<>>)
ClsTuple == Class(5, <<"t", "u", "p", "l", "e">>, TRUE, FALSE, <<>>)
ClsDict == Class(6, <<"d", "i", "c", "t">>, FALSE, FALSE, <<>>)
ClsNode == Class(7, <<"N", "1">>, FALSE, TRUE, <<<<"a">>, <<"b">>>>)

Obj(cls, vs) == [cls |-> cls, vals |-> vs]

Five == IntV(0, <<1, 0, 1>>)

Elements ==
    {Obj(ClsN1, <<a, b>>) : a \in {Five, StrV(<<>>)}, b \in {Five, FloatV(1)}}
    \cup {Obj(ClsN2, <<Five, Five>>), Obj(ClsN1x, <<Five>>), Obj(ClsE, <<>>),
          Obj(ClsTuple, <<Five>>), Obj(ClsDict, <<>>), Obj(ClsNode, <<>>)}

Batches == UNION {[1..k -> Elements] : k \in 0..MaxBatch}

\* list(dataset): the elements the iterable still yields.
Materialize(s) == s.items

\* An iterable that list(dataset) always drains.
RemainingDrained(s) == <<>>

\* What the iterable yields after list(dataset) has run over it: a list yields
\* its elements again, an iterator is exhausted.
Remaining(s) == IF s.lazy THEN <<>> ELSE s.items

\* A length check that lets a single row through.
TooFewRowsOne(ds) == Len(ds) < 1

\* len(dataset) < 2
TooFewRows(ds) == Len(ds) < 2

\* A check that looks only at isinstance(t, tuple).
AllTuples(ds) == \A i \in 1..Len(ds) : ds[i].cls.isTuple

\* all(isinstance(t, tuple) and hasattr(t, '_fields') for t in dataset)
AllNamedtuples(ds) ==
    \A i \in 1..Len(ds) : ds[i].cls.isTuple /\ ds[i].cls.hasFields

\* len({o.__class__.__name__ for o in dataset}) == 1
OneTypeName(ds) == Cardinality({ds[i].cls.name : i \in 1..Len(ds)}) = 1

\* dataset[0].__class__.__name__ and dataset[0]._fields
TableName(ds) == ds[1].cls.name
Fields(ds) == ds[1].cls.fields

\* [row[n] for row in dataset], n counted from 0: row[n] raises IndexError on a
\* row that is too short.
RowTooShort(ds, k) == \E i \in 1..Len(ds) : Len(ds[i].vals) <= k
ColVals(ds, k) == [i \in 1..Len(ds) |-> ds[i].vals[k + 1]]

\* types[col] = coldef on a dict that keeps insertion order.
DictSet(d, col, typ) ==
    IF \E i \in 1..Len(d) : d[i].col = col
    THEN [i \in 1..Len(d) |-> IF d[i].col = col THEN [col |-> col, typ |-> typ] ELSE d[i]]
    ELSE Append(d, [col |-> col, typ |-> typ])

\* str.rstrip(c)
RStrip(s, c) ==
    LET keep == {i \in 1..Len(s) : s[i] # c}
    IN IF keep = {} THEN <<>>
       ELSE SubSeq(s, 1, CHOOSE i \in keep : \A j \in keep : j <= i)

RECURSIVE JoinFrom(_, _, _)
JoinFrom(lines, sep, i) ==
    IF i > Len(lines) THEN <<>>
    ELSE IF i = Len(lines) THEN lines[i]
    ELSE lines[i] \o sep \o JoinFrom(lines, sep, i + 1)

\* sep.join(lines)
Join(lines, sep) == JoinFrom(lines, sep, 1)

CreateTable == <<"C", "R", "E", "A", "T", "E", " ", "T", "A", "B", "L", "E", " ">>
Indent == <<" ", " ", " ", " ">>

\* The DDL text from the table name and the types dict.
FormatSql(tablename, ts) ==
    LET head == <<CreateTable \o tablename \o <<" ", "(">>>>
        cols == [i \in 1..Len(ts) |-> Indent \o ts[i].col \o <<" ">> \o ts[i].typ \o <<",">>]
        sql == head \o cols
        stripped == [i \in 1..Len(sql) |->
                        IF i = Len(sql) THEN RStrip(sql[i], ",") ELSE sql[i]]
    IN Join(Append(stripped, <<")", ";">>), <<"\n">>)

Init ==
    /\ src \in [lazy : BOOLEAN, items : Batches]
    /\ orig = src.items
    /\ pc = "idle" /\ dataset = <<>> /\ n = 0 /\ types = <<>>
    /\ out = NoResult /\ hist = <<>> /\ ucalls = 0
    /\ vals = <<>> /\ result = NoResult

\* infer_schema_nt(dataset) is called: dataset = list(dataset).
Call ==
    /\ pc = "idle"
    /\ Len(hist) < MaxCalls
    /\ dataset' = Materialize(src)
    /\ src' = [src EXCEPT !.items = Remaining(src)]
    /\ pc' = "len" /\ n' = 0 /\ types' = <<>> /\ out' = NoResult /\ ucalls' = 0
    /\ UNCHANGED <<orig, hist, vals, result>>

\* Require at least two rows.
CheckLen ==
    /\ pc = "len"
    /\ IF TooFewRows(dataset)
       THEN out' = Raise("ValueError", MsgTwoRows) /\ pc' = "done"
       ELSE out' = out /\ pc' = "nt"
    /\ UNCHANGED <<src, orig, dataset, n, types, hist, ucalls, vals, result>>

\* Check that they are all namedtuples.
CheckNamedtuples ==
    /\ pc = "nt"
    /\ IF ~AllNamedtuples(dataset)
       THEN out' = Raise("ValueError", MsgNotNamedtuples) /\ pc' = "done"
       ELSE out' = out /\ pc' = "type"
    /\ UNCHANGED <<src, orig, dataset, n, types, hist, ucalls, vals, result>>

\* Check that the namedtuples have the same type.
CheckSameType ==
    /\ pc = "type"
    /\ IF ~OneTypeName(dataset)
       THEN out' = Raise("ValueError", MsgVaryingTypes) /\ pc' = "done"
       ELSE out' = out /\ pc' = "cols"
    /\ UNCHANGED <<src, orig, dataset, n, types, hist, ucalls, vals, result>>

\* One round of the loop over enumerate(fields).
UnifyColumn ==
    /\ pc = "cols"
    /\ n < Len(Fields(dataset))
    /\ IF RowTooShort(dataset, n)
       THEN /\ out' = Raise("IndexError", MsgTupleIndex) /\ pc' = "done"
            /\ UNCHANGED <<n, types, ucalls, vals, result>>
       ELSE LET colvals == ColVals(dataset, n)
                coldef == unify_datatype(colvals)
                col == Fields(dataset)[n + 1]
            IN /\ vals' = colvals /\ result' = coldef
               /\ ucalls' = ucalls + 1
               /\ IF coldef.kind = "raise"
                  THEN out' = coldef /\ pc' = "done" /\ UNCHANGED <<n, types>>
                  ELSE IF coldef.text = <<>>
                  THEN /\ out' = Raise("ValueError", MsgNoUnifiedPrefix \o col)
                       /\ pc' = "done" /\ UNCHANGED <<n, types>>
                  ELSE /\ types' = DictSet(types, col, coldef.text)
                       /\ n' = n + 1 /\ UNCHANGED <<out, pc>>
    /\ UNCHANGED <<src, orig, dataset, hist>>

\* Format the DDL SQL command and return it.
Format ==
    /\ pc = "cols"
    /\ n = Len(Fields(dataset))
    /\ out' = Return(FormatSql(TableName(dataset), types))
    /\ pc' = "done"
    /\ UNCHANGED <<src, orig, dataset, n, types, hist, ucalls, vals, result>>

\* The call ends: the caller has its outcome.
Finish ==
    /\ pc = "done"
    /\ hist' = Append(hist, out)
    /\ pc' = "idle"
    /\ UNCHANGED <<src, orig, dataset, n, types, out, ucalls, vals, result>>

Next ==
    \/ Call
    \/ CheckLen
    \/ CheckNamedtuples
    \/ CheckSameType
    \/ UnifyColumn
    \/ Format
    \/ Finish

Spec == Init /\ [][Next]_vars

(***************************************************************************)
(* What the claims speak of, stated apart from the operators above.        *)
(***************************************************************************)
ErrTwoRows == [kind |-> "raise", exc |-> "ValueError", text |-> MsgTwoRows]
ErrNotNamedtuples == [kind |-> "raise", exc |-> "ValueError", text |-> MsgNotNamedtuples]
ErrVaryingTypes == [kind |-> "raise", exc |-> "ValueError", text |-> MsgVaryingTypes]

Applied == pc = "unify" /\ result # NoResult

AllInts == \A i \in 1..Len(vals) : vals[i].t \in {"int", "bool"}
AllDecimals == \A i \in 1..Len(vals) : vals[i].t = "Decimal"
AllFloats == \A i \in 1..Len(vals) : vals[i].t = "float"
AllFractions == \A i \in 1..Len(vals) : vals[i].t = "Fraction"
AllDollarStrs ==
    \A i \in 1..Len(vals) :
        vals[i].t = "str" /\ Len(vals[i].s) > 0 /\ Head(vals[i].s) = "$"

\* The bit length of the largest magnitude in the column.
MaxBitLen ==
    LET lens == {Len(vals[i].digs) : i \in 1..Len(vals)}
    IN CHOOSE m \in lens : \A k \in lens : k <= m

RECURSIVE BitsValue(_, _, _)
BitsValue(bits, i, acc) ==
    IF i > Len(bits) THEN acc ELSE BitsValue(bits, i + 1, 2 * acc + bits[i])

RECURSIVE LimbsOfBits(_)
\* A magnitude as limbs, sixteen bits at a time.
LimbsOfBits(bits) ==
    IF Len(bits) <= 16 THEN MulAdd(<<0>>, 0, BitsValue(bits, 1, 0))
    ELSE MulAdd(LimbsOfBits(SubSeq(bits, 1, Len(bits) - 16)), 65536,
                BitsValue(SubSeq(bits, Len(bits) - 15, Len(bits)), 1, 0))

\* v is within the signed w-bit range [-2 ** (w - 1), 2 ** (w - 1) - 1].
FitsSigned(v, w) ==
    \/ Len(v.digs) <= w - 1
    \/ v.sign = 1 /\ v.digs = [i \in 1..w |-> IF i = 1 THEN 1 ELSE 0]

\* v has at most p decimal digits.
FitsDigits(v, p) == NumDigits(LimbsOfBits(v.digs)) <= p

IsDecimal1Label(text) == \E p \in 1..(MaxBits + 2) : text = LblDecimal1(p)

\* floor(log10(2 ** b)), from log10(2) = 0.30102999...; exact for b < 1000.
FloorLog10Pow2(b) == (b * 30103) \div 100000

\* The characters of a Decimal's text that are digits left and right of the
\* point: the text is [-]digits[.digits][E(+|-)digits].
Mantissa(str) ==
    LET unsigned == IF Len(str) > 0 /\ Head(str) = "-" THEN Tail(str) ELSE str
        ends == {i \in 1..Len(unsigned) : unsigned[i] = "E"}
    IN IF ends = {} THEN unsigned
       ELSE SubSeq(unsigned, 1, (CHOOSE i \in ends : TRUE) - 1)

HasPoint(str) == \E i \in 1..Len(str) : str[i] = "."

PointAt(str) == CHOOSE i \in 1..Len(str) : str[i] = "."

LeftDigits(str) ==
    LET m == Mantissa(str) IN IF HasPoint(m) THEN PointAt(m) - 1 ELSE Len(m)

RightDigits(str) ==
    LET m == Mantissa(str) IN IF HasPoint(m) THEN Len(m) - PointAt(m) ELSE 0

SetMax(S) == CHOOSE m \in S : \A k \in S : k <= m

\* The batch passes the three validation steps.
HasNonRecord(b) == \E i \in 1..Len(b) : ~b[i].cls.isTuple \/ ~b[i].cls.hasFields
MixedTypes(b) == \E i, j \in 1..Len(b) : b[i].cls.id # b[j].cls.id
MixedNames(b) == \E i, j \in 1..Len(b) : b[i].cls.name # b[j].cls.name
PassesValidation(b) == Len(b) >= 2 /\ ~HasNonRecord(b) /\ ~MixedNames(b)

\* The text the output is to be: the opening line, a line per declared field
\* with the type of the field's column, commas on all but the last, the
\* closing line.
ExpectedText(b) ==
    LET fields == b[1].cls.fields
        N == Len(fields)
        column(i) == [r \in 1..Len(b) |-> b[r].vals[i]]
        line(i) == Indent \o fields[i] \o <<" ">> \o unify_datatype(column(i)).text
                   \o (IF i < N THEN <<",">> ELSE <<>>)
        lines == <<CreateTable \o b[1].cls.name \o <<" ", "(">>>>
                 \o [i \in 1..N |-> line(i)] \o << <<")", ";">> >>
    IN Join(lines, <<"\n">>)

(***************************************************************************)
(* The claims.                                                             *)
(***************************************************************************)

\* C1: in a column of two or more integers the type picked holds every value
\* of the column: SMALLINT the signed 16-bit range, INTEGER the signed 32-bit
\* range, BIGINT the signed 64-bit range, DECIMAL(p) at most p decimal digits.
C1_TypeHoldsValues ==
    (Applied /\ Len(vals) >= 2 /\ AllInts) =>
        /\ result.kind = "return"
        /\ \/ /\ result.text = LblSmallint
              /\ \A i \in 1..Len(vals) : FitsSigned(vals[i], 16)
           \/ /\ result.text = LblInteger
              /\ \A i \in 1..Len(vals) : FitsSigned(vals[i], 32)
           \/ /\ result.text = LblBigint
              /\ \A i \in 1..Len(vals) : FitsSigned(vals[i], 64)
           \/ \E p \in 1..(MaxBits + 2) :
                 /\ result.text = LblDecimal1(p)
                 /\ \A i \in 1..Len(vals) : FitsDigits(vals[i], p)

\* C2, as stated: a batch of any length with an element that is not a tuple
\* or has no _fields fails with the not-exclusively-namedtuples error.
C2_AnyLength ==
    (pc = "done" /\ HasNonRecord(dataset)) => out = ErrNotNamedtuples

\* C2, amended: a batch of two or more elements with an element that is not a
\* tuple or has no _fields fails with the not-exclusively-namedtuples error,
\* whatever the other elements are.
C2_NotNamedtuples ==
    (pc = "done" /\ Len(dataset) >= 2 /\ HasNonRecord(dataset)) =>
        out = ErrNotNamedtuples

C2_Witness ==
    /\ pc = "done" /\ Len(dataset) = 3 /\ out = ErrNotNamedtuples
    /\ dataset[1].cls = ClsN1 /\ dataset[2].cls = ClsTuple /\ dataset[3].cls = ClsN2

\* C3: a batch of records whose types are not all the same type fails with
\* the varying-types error, and never yields a CREATE TABLE statement.
C3_MixedTypesRejected ==
    (pc = "done" /\ Len(dataset) >= 2 /\ ~HasNonRecord(dataset) /\ MixedTypes(dataset)) =>
        out = ErrVaryingTypes

\* C4: a batch of fewer than two records fails with the two-rows error,
\* whatever its element is and however it was produced, and unify_datatype
\* has not been called.
C4_TooFewRows ==
    /\ (pc = "done" /\ Len(dataset) < 2) => (out = ErrTwoRows /\ ucalls = 0)
    /\ (Len(hist) >= 1 /\ Len(orig) < 2) => hist[1] = ErrTwoRows
    /\ pc \in {"len", "nt", "type"} => ucalls = 0

C4_Witness ==
    /\ pc = "done" /\ src.lazy /\ Len(orig) = 1 /\ dataset = orig
    /\ HasNonRecord(dataset) /\ out = ErrTwoRows /\ hist = <<>>

\* C5: for a batch that passes validation the output is the opening line, one
\* line per declared field in declared order with the type of its column,
\* a comma after every column line but the last, and the closing line.
C5_OutputFormat ==
    (pc = "done" /\ PassesValidation(dataset)) =>
        (out.kind = "return" /\ out.text = ExpectedText(dataset))

\* Whenever a text is returned it has that form.
FormatWhenReturned ==
    (pc = "done" /\ out.kind = "return") =>
        (PassesValidation(dataset) /\ out.text = ExpectedText(dataset))

C7_AlwaysLabel ==
    Applied =>
        /\ result.kind = "return"
        /\ result.text # <<>>
        /\ (~AllFloats /\ ~AllInts /\ ~AllDecimals /\ ~AllDollarStrs /\ ~AllFractions)
               => result.text = LblText

\* C8, as stated: two calls on the same input end the same way, a lazily
\* produced input included.
C8_SameOutcome ==
    \A k \in 2..Len(hist) : hist[k] = hist[1]

\* C8, amended: two calls on the same list end the same way and leave the
\* list as it was; a call on an iterator that an earlier call consumed sees
\* no rows and fails with the two-rows error.
C8_SameOutcomeOnLists ==
    /\ \A k \in 2..Len(hist) :
          IF src.lazy THEN hist[k] = ErrTwoRows ELSE hist[k] = hist[1]
    /\ ~src.lazy => src.items = orig
    /\ pc # "idle" => \A i \in 1..Len(dataset) : \E j \in 1..Len(orig) : dataset[i] = orig[j]

C8_Witness ==
    /\ Len(hist) = 2 /\ ~src.lazy /\ Len(orig) = 3
    /\ hist[1].kind = "return" /\ hist[2] = hist[1]

\* C9: for a column of Decimals the result is DECIMAL(L + R + 1, R + 1), with
\* L the most digits left of the point and R the most digits right of the
\* point in the texts of the values.
C9_DecimalDigits ==
    (Applied /\ AllDecimals) =>
        LET L == SetMax({LeftDigits(DecimalStr(vals[i])) : i \in 1..Len(vals)})
            R == SetMax({RightDigits(DecimalStr(vals[i])) : i \in 1..Len(vals)})
        IN result = Return(LblDecimal2(L + R + 1, R + 1))

\* C10, as stated: for a column of integers whose largest magnitude has bit
\* length b > 64 the result is DECIMAL(p) with p = ceil(log10(2 ** b)) + 1.
C10_CeilPlusOne ==
    (Applied /\ AllInts /\ MaxBitLen > 64) =>
        result = Return(LblDecimal1((FloorLog10Pow2(MaxBitLen) + 1) + 1))

\* C10, amended: for a column of integers whose largest magnitude has bit
\* length b > 64 the result is DECIMAL(p) with p = floor(log10(2 ** b)) + 1,
\* the number of decimal digits of 2 ** b, and no second parameter.
C10_FloorPlusOne ==
    (Applied /\ AllInts /\ MaxBitLen > 64) =>
        result = Return(LblDecimal1(FloorLog10Pow2(MaxBitLen) + 1))

C10_Witness ==
    /\ Applied /\ AllInts /\ MaxBitLen = 67
    /\ result = Return(LblDecimal1(21))
====
